---- MODULE Spec2Model ----
(***************************************************************************)
(* supabase-typed-query: the condition compiler (applyCondition,           *)
(* applyOrConditions, buildSupabaseQuery) and the immutable Query /        *)
(* MappedQuery chain that wraps it, as a state machine.                    *)
(*                                                                         *)
(* JavaScript values are tagged records, objects are sequences of          *)
(* key/value pairs in insertion order, and the backend builder calls a     *)
(* compilation issues are a sequence of call records.                      *)
(***************************************************************************)
EXTENDS Integers, Sequences, FiniteSets

VARIABLES
    build,       \* which of the repository's two QueryBuilder sources is built
    heap,        \* the QueryCondition objects, by reference
    chains,      \* the chain values created so far (QueryBuilderConfig each)
    log,         \* one entry per terminal execution requested
    executions,  \* backend executions issued: single() or the awaited list fetch
    outcome      \* what the last terminal method or rpc call handed to its caller,
                 \* where the run observes results and not the backend calls alone

vars == <<build, heap, chains, log, executions, outcome>>

\* src/query/QueryBuilder.ts as named in the repository, and its later
\* revision (NOT conditions, neq-null rewriting, Task-based terminals).
Builds == {"QueryBuilder", "QueryBuilderNot"}

(***************************************************************************)
(* JavaScript values                                                       *)
(***************************************************************************)
Undef == [t |-> "undef"]
Null == [t |-> "null"]
S(s) == [t |-> "s", s |-> s]
Arr(l) == [t |-> "arr", l |-> l]
O(o) == [t |-> "obj", o |-> o]
Pair(k, v) == [k |-> k, v |-> v]

\* The scalars that JavaScript treats as false in a condition: 0, "" and false.
FalsyScalars == {"0", "", "false"}

\* if (v) ...
Truthy(v) == /\ v.t # "undef"
             /\ v.t # "null"
             /\ ~(v.t = "s" /\ v.s \in FalsyScalars)

\* value && typeof value === "object" && !Array.isArray(value) && !(value instanceof Date)
IsPlainObject(v) == v.t = "obj"

\* Object.entries / Object.keys of a value that may be undefined
Entries(v) == IF v.t = "obj" THEN v.o ELSE <<>>

Has(o, k) == \E i \in 1..Len(o) : o[i].k = k

\* obj[k]
Get(o, k) == IF Has(o, k) THEN o[CHOOSE i \in 1..Len(o) : o[i].k = k].v ELSE Undef

\* obj[k] = v: an existing key keeps its position, a new key goes last
Set(o, k, v) ==
    IF Has(o, k)
    THEN [i \in 1..Len(o) |-> IF o[i].k = k THEN Pair(k, v) ELSE o[i]]
    ELSE Append(o, Pair(k, v))

\* { ...a, ...b } on entry lists
RECURSIVE Spread(_, _)
Spread(a, b) == IF b = <<>> THEN a ELSE Spread(Set(a, Head(b).k, Head(b).v), Tail(b))

\* the object without the keys ks (rest destructuring, delete obj[k])
Without(o, ks) == SelectSeq(o, LAMBDA p : p.k \notin ks)

Keys(o) == {o[i].k : i \in 1..Len(o)}

\* `${value}` inside a template literal
Str(v) ==
    CASE v.t = "s" -> v.s
      [] v.t = "null" -> "null"
      [] v.t = "undef" -> "undefined"
      [] v.t = "obj" -> "[object Object]"
      [] OTHER -> "[array]"

(***************************************************************************)
(* Backend builder calls                                                   *)
(***************************************************************************)
Call(op, col, arg) == [op |-> op, col |-> col, sub |-> "", arg |-> arg]
NotCall(col, sub, arg) == [op |-> "not", col |-> col, sub |-> sub, arg |-> arg]

\* One comma-separated clause of the or(...) filter string: col.op.val
Clause(col, op, val) == [col |-> col, op |-> op, val |-> val]

DeletedColumn == "deleted"

\* const TABLES_WITHOUT_DELETED = new Set<string>([])
TABLES_WITHOUT_DELETED == {}

Table == "posts"

\* The soft-delete filter both compilation paths apply to the base query.
\* A soft-delete filter that treats mode only as mode exclude
SoftDeleteCallsOnlyAsExclude(softDeleteMode) ==
    IF softDeleteMode \in {"exclude", "only"} THEN <<Call("is", DeletedColumn, Null)>>
    ELSE <<>>

SoftDeleteCalls(softDeleteMode) ==
    IF Table \in TABLES_WITHOUT_DELETED THEN <<>>
    ELSE IF softDeleteMode = "exclude" THEN <<Call("is", DeletedColumn, Null)>>
    ELSE IF softDeleteMode = "only" THEN <<NotCall(DeletedColumn, "is", Null)>>
    ELSE <<>>

(***************************************************************************)
(* QueryCondition                                                          *)
(***************************************************************************)
ComparisonOps == <<"gt", "gte", "lt", "lte", "neq", "like", "ilike">>
ComparisonOpSet == {ComparisonOps[i] : i \in 1..Len(ComparisonOps)}

\* conditions: [{ where, is, wherein, ...comparison, not }]
Condition(where, is, wherein) ==
    [where |-> where, is |-> is, wherein |-> wherein,
     gt |-> Undef, gte |-> Undef, lt |-> Undef, lte |-> Undef, neq |-> Undef,
     like |-> Undef, ilike |-> Undef, not |-> Undef]

(***************************************************************************)
(* applyCondition: single-branch compilation                               *)
(***************************************************************************)
\* extractedOperators, processedWhere and the condition's wherein / is
\* objects before the where object is scanned.  wherein0 / is0 are the
\* values the destructuring at the top of applyCondition read.
ExtractInit(where, wherein0, is0) ==
    [gt |-> IF Truthy(Get(where, "gt")) THEN Get(where, "gt") ELSE Undef,
     gte |-> IF Truthy(Get(where, "gte")) THEN Get(where, "gte") ELSE Undef,
     lt |-> IF Truthy(Get(where, "lt")) THEN Get(where, "lt") ELSE Undef,
     lte |-> IF Truthy(Get(where, "lte")) THEN Get(where, "lte") ELSE Undef,
     neq |-> IF Truthy(Get(where, "neq")) THEN Get(where, "neq") ELSE Undef,
     like |-> IF Truthy(Get(where, "like")) THEN Get(where, "like") ELSE Undef,
     ilike |-> IF Truthy(Get(where, "ilike")) THEN Get(where, "ilike") ELSE Undef,
     processedWhere |-> <<>>,
     wherein |-> wherein0,
     is |-> is0]

\* extractedOperators.op = { ...extractedOperators.op, [key]: ops.op }
ExtractOp(st, op, key, ops) ==
    IF Get(ops, op) # Undef
    THEN [st EXCEPT ![op] = O(Set(Entries(st[op]), key, Get(ops, op)))]
    ELSE st

\* if (ops.in !== undefined) { if (!wherein) cond.wherein = {}; condition.wherein[key] = ops.in }
\* The test reads the destructured local, the write goes to the condition.
ExtractIn(st, key, ops, wherein0) ==
    IF Get(ops, "in") # Undef
    THEN [st EXCEPT !.wherein =
            O(Set(IF ~Truthy(wherein0) THEN <<>> ELSE Entries(st.wherein), key, Get(ops, "in")))]
    ELSE st

\* if (ops.is !== undefined) { if (!is) cond.is = {}; condition.is[key] = ops.is }
ExtractIs(st, key, ops, is0) ==
    IF Get(ops, "is") # Undef
    THEN [st EXCEPT !.is =
            O(Set(IF ~Truthy(is0) THEN <<>> ELSE Entries(st.is), key, Get(ops, "is")))]
    ELSE st

\* if (!ops.gte && !ops.gt && ... && !ops.in && !ops.is) processedWhere[key] = value
NoOperatorFound(ops) ==
    \A op \in ComparisonOpSet \cup {"in", "is"} : ~Truthy(Get(ops, op))

ExtractEntry(st, key, value, wherein0, is0) ==
    IF IsPlainObject(value)
    THEN LET ops == value.o
             s1 == ExtractOp(st, "gte", key, ops)
             s2 == ExtractOp(s1, "gt", key, ops)
             s3 == ExtractOp(s2, "lte", key, ops)
             s4 == ExtractOp(s3, "lt", key, ops)
             s5 == ExtractOp(s4, "neq", key, ops)
             s6 == ExtractOp(s5, "like", key, ops)
             s7 == ExtractOp(s6, "ilike", key, ops)
             s8 == ExtractIn(s7, key, ops, wherein0)
             s9 == ExtractIs(s8, key, ops, is0)
         IN  IF NoOperatorFound(ops)
             THEN [s9 EXCEPT !.processedWhere = Set(@, key, value)]
             ELSE s9
    ELSE [st EXCEPT !.processedWhere = Set(@, key, value)]

\* for (const [key, value] of Object.entries(rest)) ...
RECURSIVE ExtractRest(_, _, _, _)
ExtractRest(st, rest, wherein0, is0) ==
    IF rest = <<>> THEN st
    ELSE ExtractRest(ExtractEntry(st, Head(rest).k, Head(rest).v, wherein0, is0),
                     Tail(rest), wherein0, is0)

\* The operator extraction pass over condition.where.
Extract(condition) ==
    ExtractRest(ExtractInit(condition.where, condition.wherein, condition.is),
                Without(condition.where, ComparisonOpSet),
                condition.wherein, condition.is)

\* The condition object after applyCondition has run on it: the extraction
\* pass writes the inline in / is operators into condition.wherein / condition.is.
applyConditionEffect(condition) ==
    LET st == Extract(condition)
    IN  [condition EXCEPT !.wherein = st.wherein, !.is = st.is]

\* entries.reduce((q, [key, value]) => q.op(key, value), q)
CallsOf(op, entries) == [i \in 1..Len(entries) |-> Call(op, entries[i].k, entries[i].v)]

NotCallsOf(sub, entries) == [i \in 1..Len(entries) |-> NotCall(entries[i].k, sub, entries[i].v)]

\* (q, [key, value]) => q.neq(key, value)
NeqCallsPlain(entries) == CallsOf("neq", entries)

\* value === null ? q.not(key, "is", null) : q.neq(key, value)
NeqCallsNullAsNot(entries) ==
    [i \in 1..Len(entries) |->
        IF entries[i].v = Null THEN NotCall(entries[i].k, "is", Null)
        ELSE Call("neq", entries[i].k, entries[i].v)]

NeqCalls(entries) ==
    IF build = "QueryBuilder" THEN NeqCallsPlain(entries) ELSE NeqCallsNullAsNot(entries)

\* The builder calls applyCondition issues for one condition.
applyCondition(condition, softDeleteMode) ==
    LET st == Extract(condition)
        \* the locals wherein / is: the object read at the top, which the
        \* extraction pass has written to when it existed then
        wherein == IF Truthy(condition.wherein) THEN st.wherein ELSE Undef
        is == IF Truthy(condition.is) THEN st.is ELSE Undef
        merged(op) == Spread(Entries(condition[op]), Entries(st[op]))
    IN  <<Call("select", "", S("*")), Call("match", "", O(st.processedWhere))>>
        \o SoftDeleteCalls(softDeleteMode)
        \o CallsOf("in", Entries(wherein))
        \o CallsOf("is", Entries(is))
        \o CallsOf("gt", merged("gt"))
        \o CallsOf("gte", merged("gte"))
        \o CallsOf("lt", merged("lt"))
        \o CallsOf("lte", merged("lte"))
        \o NeqCalls(merged("neq"))
        \o CallsOf("like", merged("like"))
        \o CallsOf("ilike", merged("ilike"))
        \o NotCallsOf("is", Entries(Get(Entries(condition.not), "is")))
        \o NotCallsOf("in", Entries(Get(Entries(condition.not), "in")))

(***************************************************************************)
(* applyOrConditions: multi-branch compilation                             *)
(***************************************************************************)
\* (condition.where)[key] === value: scalars and null compare by value, an
\* object or an array only equals itself, and each branch's where object
\* holds objects of its own.
StrictEquals(a, b) == a.t \in {"s", "null"} /\ a = b

\* A test that compares the first branch with the second branch only
isCommonConditionWithSecond(conditions, key, value) ==
    StrictEquals(Get(conditions[2].where, key), value)

\* conditions.every((condition) => condition.where[key] === value)
isCommonCondition(conditions, key, value) ==
    \A i \in 1..Len(conditions) :
        i = 1 \/ StrictEquals(Get(conditions[i].where, key), value)

\* The Map commonConditions: the first branch's entries every branch repeats.
commonConditions(conditions) ==
    SelectSeq(conditions[1].where, LAMBDA p : isCommonCondition(conditions, p.k, p.v))

\* { where: newWhere, is: condition.is, wherein: condition.wherein, not: condition.not }
VaryingCondition(condition, commonKeys) ==
    [Condition(Without(condition.where, commonKeys), condition.is, condition.wherein)
        EXCEPT !.not = condition.not]

\* A branch list that keeps the common entries in every branch
varyingConditionsKeepCommon(conditions) ==
    [i \in 1..Len(conditions) |-> VaryingCondition(conditions[i], {})]

varyingConditions(conditions) ==
    LET commonKeys == Keys(commonConditions(conditions))
    IN  [i \in 1..Len(conditions) |-> VaryingCondition(conditions[i], commonKeys)]

\* value === null ? query.is(key, null) : query.eq(key, value)
CommonCalls(common) ==
    [i \in 1..Len(common) |->
        IF common[i].v = Null THEN Call("is", common[i].k, Null)
        ELSE Call("eq", common[i].k, common[i].v)]

\* `"${v}"`
Quote(v) == "\"" \o Str(v) \o "\""

\* values.map((v) => `"${v}"`), the operand list of an in clause
QuotedList(values) == [i \in 1..Len(values) |-> "\"" \o values[i] \o "\""]

\* values && Array.isArray(values) && values.length > 0
NonEmptyArray(v) == v.t = "arr" /\ Len(v.l) > 0

WhereParts(entries) ==
    [i \in 1..Len(entries) |->
        IF entries[i].v = Null THEN Clause(entries[i].k, "is", <<"null">>)
        ELSE Clause(entries[i].k, "eq", <<Quote(entries[i].v)>>)]

IsParts(op, entries) ==
    [i \in 1..Len(entries) |-> Clause(entries[i].k, op, <<Str(entries[i].v)>>)]

InParts(op, entries) ==
    LET kept == SelectSeq(entries, LAMBDA p : NonEmptyArray(p.v))
    IN  [i \in 1..Len(kept) |-> Clause(kept[i].k, op, QuotedList(kept[i].v.l))]

PlainParts(op, entries) ==
    [i \in 1..Len(entries) |-> Clause(entries[i].k, op, <<Str(entries[i].v)>>)]

QuotedParts(op, entries) ==
    [i \in 1..Len(entries) |-> Clause(entries[i].k, op, <<Quote(entries[i].v)>>)]

NeqParts(entries) ==
    [i \in 1..Len(entries) |->
        IF entries[i].v = Null THEN Clause(entries[i].k, "not.is", <<"null">>)
        ELSE Clause(entries[i].k, "neq", <<Quote(entries[i].v)>>)]

\* The clauses of one branch, parts, before parts.join(",").
BranchParts(condition) ==
    WhereParts(condition.where)
    \o IsParts("is", Entries(condition.is))
    \o InParts("in", Entries(condition.wherein))
    \o PlainParts("gt", Entries(condition.gt))
    \o PlainParts("gte", Entries(condition.gte))
    \o PlainParts("lt", Entries(condition.lt))
    \o PlainParts("lte", Entries(condition.lte))
    \o NeqParts(Entries(condition.neq))
    \o QuotedParts("like", Entries(condition.like))
    \o QuotedParts("ilike", Entries(condition.ilike))
    \o IsParts("not.is", Entries(Get(Entries(condition.not), "is")))
    \o InParts("not.in", Entries(Get(Entries(condition.not), "in")))

\* parts.join(",") of every branch, then orConditions.join(","): the commas
\* that separate a branch's clauses and the commas that separate branches
\* are the same character, so the string is the flat list of all clauses.
RECURSIVE JoinFragments(_)
JoinFragments(fragments) ==
    IF fragments = <<>> THEN <<>>
    ELSE Head(fragments) \o JoinFragments(Tail(fragments))

\* .map(...parts.join(",")).filter((condition) => condition.length > 0)
orConditions(varying) ==
    SelectSeq([i \in 1..Len(varying) |-> BranchParts(varying[i])],
              LAMBDA parts : Len(parts) > 0)

\* The builder calls applyOrConditions issues for a list of branches.
applyOrConditions(conditions, softDeleteMode) ==
    LET varying == varyingConditions(conditions)
        fragments == orConditions(varying)
        queryWithCommon ==
            <<Call("select", "", S("*"))>>
            \o SoftDeleteCalls(softDeleteMode)
            \o CommonCalls(commonConditions(conditions))
    IN  IF \A i \in 1..Len(varying) : Len(varying[i].where) = 0
        THEN queryWithCommon
        ELSE IF Len(fragments) > 0
        THEN Append(queryWithCommon,
                    Call("or", "", [t |-> "filter", c |-> JoinFragments(fragments)]))
        ELSE queryWithCommon

(***************************************************************************)
(* buildSupabaseQuery                                                      *)
(***************************************************************************)
N(n) == [t |-> "n", n |-> n]

\* Number.MAX_SAFE_INTEGER, kept symbolic
MAX_SAFE_INTEGER == [t |-> "max"]

\* order ? queryWithConditions.order(order[0], order[1]) : queryWithConditions
OrderCalls(order) == IF order = Undef THEN <<>> ELSE <<Call("order", order.s, Undef)>>

\* if (limit): undefined and 0 are false
LimitSet(limit) == limit # Undef /\ limit.n # 0

\* limit / offset are N(n) or Undef
PaginationCalls(limit, offset) ==
    IF LimitSet(limit) /\ offset # Undef
    THEN <<Call("range", "", <<offset, N(offset.n + limit.n - 1)>>)>>
    ELSE IF LimitSet(limit)
    THEN <<Call("limit", "", <<limit>>)>>
    ELSE IF offset # Undef
    THEN <<Call("range", "", <<offset, MAX_SAFE_INTEGER>>)>>
    ELSE <<>>

\* A compilation that paginates before it orders
buildSupabaseQueryPaginatesFirst(conditions, config) ==
    (IF Len(conditions) = 1
     THEN applyCondition(conditions[1], config.softDeleteMode)
     ELSE applyOrConditions(conditions, config.softDeleteMode))
    \o PaginationCalls(config.limit, config.offset)
    \o OrderCalls(config.order)

\* The builder calls of a chain whose branch list reads as conditions (the
\* condition objects, in order) now.
buildSupabaseQuery(conditions, config) ==
    (IF Len(conditions) = 1
     THEN applyCondition(conditions[1], config.softDeleteMode)
     ELSE applyOrConditions(conditions, config.softDeleteMode))
    \o OrderCalls(config.order)
    \o PaginationCalls(config.limit, config.offset)

(***************************************************************************)
(* Chain values: QueryBuilderConfig, and the fields kept for the checks    *)
(***************************************************************************)
\* const config = { table, conditions: [{ where, is, wherein, ...comparison, not }],
\*                  order, softDeleteMode, softDeleteAppliedByDefault, schema }
\* partition, parent, via, lastSwitch and created are history: the partition
\* scope the chain was obtained under, the chain and method it was derived
\* by, the last mode switch in its derivation, and the condition objects as
\* they read when the chain value was created.
createQuery(conditionRef, condition, order, mode, appliedByDefault, partition) ==
    [kind |-> "Query",
     conditions |-> <<conditionRef>>,
     order |-> order,
     limit |-> Undef,
     offset |-> Undef,
     softDeleteMode |-> mode,
     softDeleteAppliedByDefault |-> appliedByDefault,
     filterFn |-> <<>>,
     mapFn |-> <<>>,
     partition |-> partition,
     parent |-> 0,
     via |-> "createQuery",
     lastSwitch |-> "none",
     created |-> <<condition>>]

\* The condition objects a chain's branch list refers to, as they read in h.
Deref(h, refs) == [i \in 1..Len(refs) |-> h[refs[i]]]

\* The program's objects: st.heap the condition objects, st.chains the chain
\* values.  Add is the chain value a method called on st.chains[c] returns.
Add(st, c, via, config) ==
    [heap |-> st.heap,
     chains |-> Append(st.chains,
                       [config EXCEPT !.parent = c, !.via = via,
                                      !.created = Deref(st.heap, config.conditions)])]

(***************************************************************************)
(* Chain methods: each returns a new chain value                           *)
(***************************************************************************)
\* or: (where, is?) => QueryBuilder(client, { ...config, conditions: [...config.conditions, { where, is }] })
orCall(st, c, where, is) ==
    LET h == Append(st.heap, Condition(where, is, Undef))
    IN  Add([st EXCEPT !.heap = h], c, "or",
            [st.chains[c] EXCEPT !.conditions = Append(@, Len(h))])

\* A whereId that ANDs the id into the last branch instead of adding a branch
whereIdCallAnds(st, c, id) ==
    LET refs == st.chains[c].conditions
        last == st.heap[refs[Len(refs)]]
        h == Append(st.heap, [last EXCEPT !.where = Set(@, "id", id)])
    IN  Add([st EXCEPT !.heap = h], c, "whereId",
            [st.chains[c] EXCEPT !.conditions = [@ EXCEPT ![Len(refs)] = Len(h)]])

\* whereId: conditions: [...config.conditions, { where: { id } }]
whereIdCall(st, c, id) ==
    LET h == Append(st.heap, Condition(<<Pair("id", id)>>, Undef, Undef))
    IN  Add([st EXCEPT !.heap = h], c, "whereId",
            [st.chains[c] EXCEPT !.conditions = Append(@, Len(h))])

\* orWhereId: QueryBuilder(client, config).or({ id })
orWhereIdCall(st, c, id) ==
    LET h == Append(st.heap, Condition(<<Pair("id", id)>>, Undef, Undef))
    IN  Add([st EXCEPT !.heap = h], c, "orWhereId",
            [st.chains[c] EXCEPT !.conditions = Append(@, Len(h))])

\* A filter that replaces config.filterFn instead of composing with it
filterCallReplaces(st, c, predicate) ==
    Add(st, c, "filter",
        [st.chains[c] EXCEPT !.filterFn = <<[p |-> predicate, after |-> st.chains[c].mapFn]>>])

\* A MappedQuery filter that hands the predicate the row, not mapFn(row)
filterCallOnRow(st, c, predicate) ==
    Add(st, c, "filter",
        [st.chains[c] EXCEPT !.filterFn = Append(@, [p |-> predicate, after |-> <<>>])])

\* filter: a Query composes the predicate into filterFn; a MappedQuery
\* filters its source on predicate(mapFn(item))
filterCall(st, c, predicate) ==
    Add(st, c, "filter",
        [st.chains[c] EXCEPT !.filterFn = Append(@, [p |-> predicate, after |-> st.chains[c].mapFn])])

\* map: createMappedQuery(QueryBuilder(client, config), fn), and on a
\* MappedQuery createMappedQuery(sourceQuery, (item) => fn(mapFn(item)))
mapCall(st, c, fn) ==
    Add(st, c, "map", [st.chains[c] EXCEPT !.kind = "MappedQuery", !.mapFn = Append(@, fn)])

limitCall(st, c, count) == Add(st, c, "limit", [st.chains[c] EXCEPT !.limit = count])

offsetCall(st, c, count) == Add(st, c, "offset", [st.chains[c] EXCEPT !.offset = count])

\* A mode switch that spreads config without clearing softDeleteAppliedByDefault
SwitchModeKeepsDefault(st, c, via, mode) ==
    Add(st, c, via, [st.chains[c] EXCEPT !.softDeleteMode = mode, !.lastSwitch = mode])

\* { ...config, softDeleteMode: mode, softDeleteAppliedByDefault: false }
SwitchMode(st, c, via, mode) ==
    Add(st, c, via,
        [st.chains[c] EXCEPT !.softDeleteMode = mode,
                             !.softDeleteAppliedByDefault = "false",
                             !.lastSwitch = mode])

includeDeletedCall(st, c) == SwitchMode(st, c, "includeDeleted", "include")

excludeDeletedCall(st, c) == SwitchMode(st, c, "excludeDeleted", "exclude")

onlyDeletedCall(st, c) == SwitchMode(st, c, "onlyDeleted", "only")

(***************************************************************************)
(* Entry points                                                            *)
(***************************************************************************)
\* return { ...partitionCondition, ...where }
buildWhereWithPartition(partitionField, partitionKey, where) ==
    Spread(<<Pair(partitionField, partitionKey)>>, where)

\* return { ...partitionCondition, ...where, id }
buildWhereWithPartitionAndId(partitionField, partitionKey, id, where) ==
    Set(Spread(<<Pair(partitionField, partitionKey)>>, where), "id", id)

\* softDelete ? "exclude" : "include"
getSoftDeleteMode(softDelete) == IF softDelete THEN "exclude" ELSE "include"

\* query(client, table, where, is, wherein) = createQuery(client, table, where,
\*   is, wherein, order, undefined, schema)
query(where, is, wherein) ==
    LET condition == Condition(where, is, wherein)
    IN  [heap |-> <<condition>>,
         chains |-> <<createQuery(1, condition, Undef, "unset", "undefined", Undef)>>]

\* PartitionedEntity(client, name, { partitionField, softDelete }).getItems(partitionKey, { where }):
\* createGetItemsQuery(client, name, buildWhereWithPartition(partitionField,
\*   partitionKey, where), is, wherein, order, softDeleteMode, schema, ...)
\* with appliedByDefault: true
getItems(partitionField, softDelete, partitionKey, where) ==
    LET condition ==
            Condition(buildWhereWithPartition(partitionField, partitionKey, where), Undef, Undef)
    IN  [heap |-> <<condition>>,
         chains |-> <<createQuery(1, condition, Undef, getSoftDeleteMode(softDelete), "true",
                                  [field |-> partitionField, key |-> partitionKey])>>]

(***************************************************************************)
(* Terminal methods                                                        *)
(***************************************************************************)
\* The backend executions each terminal method issues, by the way the
\* methods call one another: "single" is query.single(), "list" the
\* awaited list fetch.  response is the backend's answer.
oneRuns(response) == <<"single">>

manyRuns(response) == <<"list">>

\* A first() that fetches the list again after a backend error
firstRunsAgainOnError(response) ==
    IF response.kind = "error" THEN <<"list", "list">> ELSE <<"list">>

\* A first() that runs one()
firstRunsSingle(response) == <<"single">>

\* QueryBuilder(client, config).many() then the head of the list
firstRuns(response) == manyRuns(response)

oneOrThrowRuns(response) == oneRuns(response)

manyOrThrowRuns(response) == manyRuns(response)

firstOrThrowRuns(response) == firstRuns(response)

\* A MappedQuery's terminals call the same terminal of its source Query.
Runs(method, response) ==
    CASE method = "one" -> oneRuns(response)
      [] method = "many" -> manyRuns(response)
      [] method = "first" -> firstRuns(response)
      [] method = "oneOrThrow" -> oneOrThrowRuns(response)
      [] method = "manyOrThrow" -> manyOrThrowRuns(response)
      [] method = "firstOrThrow" -> firstOrThrowRuns(response)

\* The heap after buildSupabaseQuery has run once for a chain: the
\* single-branch path runs applyCondition on the one condition object.
BuildEffect(h, chain) ==
    IF Len(chain.conditions) = 1
    THEN [h EXCEPT ![chain.conditions[1]] = applyConditionEffect(@)]
    ELSE h

RECURSIVE BuildEffects(_, _, _)
BuildEffects(h, chain, n) ==
    IF n = 0 THEN h ELSE BuildEffects(BuildEffect(h, chain), chain, n - 1)

\* The builder calls of the i-th backend execution of one terminal call,
\* ending in the execution itself.
RunCalls(h, chain, runs, i) ==
    Append(buildSupabaseQuery(Deref(BuildEffects(h, chain, i - 1), chain.conditions), chain),
           Call(runs[i], "", Undef))

(***************************************************************************)
(* Results: what a terminal method hands to its caller                     *)
(***************************************************************************)
\* functype: Option(value) is None for null and undefined
None == [t |-> "none"]
Some(v) == [t |-> "some", v |-> v]
Option(v) == IF v \in {Null, Undef} THEN None ELSE Some(v)
List(l) == [t |-> "list", l |-> l]

\* Ok / Err are the result channel, Thrown a throw or a rejected promise,
\* Returned the value an OrThrow method resolves to
Ok(v) == [tag |-> "Ok", value |-> v]
Err(e) == [tag |-> "Err", error |-> e]
Thrown(e) == [tag |-> "throw", error |-> e]
Returned(v) == [tag |-> "return", value |-> v]

\* The functions a caller hands to filter and map; they are total
Holds(predicate, v) ==
    CASE predicate = "isA" -> v = S("a")
      [] predicate = "notB" -> v # S("b")
      [] predicate = "isC" -> v = S("c")
      [] OTHER -> FALSE

Apply(fn, v) ==
    CASE fn = "swap" -> (IF v = S("a") THEN S("b") ELSE IF v = S("b") THEN S("a") ELSE v)
      [] fn = "name" -> (IF v.t = "s" THEN S(v.s \o ".name") ELSE v)
      [] OTHER -> v

\* (item) => fn(mapFn(item)), for the maps of a chain in the order made
RECURSIVE ApplyAll(_, _)
ApplyAll(fns, v) == IF fns = <<>> THEN v ELSE ApplyAll(Tail(fns), Apply(Head(fns), v))

\* A predicate that reads a property of its argument, (item) => item.name === ...,
\* throws a TypeError when it is handed null or undefined
TypeError == "TypeError"
PredicateThrows(predicate, v) == predicate = "isC" /\ v \in {Null, Undef}

\* config.filterFn(item) throws: some predicate throws on the item and the
\* predicates composed before it hold, so that && reaches it
filterFnThrows(chain, item) ==
    \E i \in 1..Len(chain.filterFn) :
        /\ PredicateThrows(chain.filterFn[i].p, ApplyAll(chain.filterFn[i].after, item))
        /\ \A j \in 1..(i - 1) :
            Holds(chain.filterFn[j].p, ApplyAll(chain.filterFn[j].after, item))

\* config.filterFn: (item) => config.filterFn(item) && predicate(item), where
\* a predicate given to a MappedQuery is (item) => predicate(mapFn(item))
filterFn(chain, item) ==
    \A i \in 1..Len(chain.filterFn) :
        Holds(chain.filterFn[i].p, ApplyAll(chain.filterFn[i].after, item))

RECURSIVE Filter(_, _)
Filter(chain, rows) ==
    IF rows = <<>> THEN <<>>
    ELSE IF filterFn(chain, Head(rows)) THEN <<Head(rows)>> \o Filter(chain, Tail(rows))
    ELSE Filter(chain, Tail(rows))

\* The backend's answer: kind "data" carries what the list fetch and what
\* single() deliver, kind "error" is { error }, kind "throws" a backend
\* call that throws
BackendError == "backend error"
NotFound == "No record found"

\* Query.one
oneResult(chain, response) ==
    IF response.kind # "data" THEN Err(BackendError)
    ELSE IF filterFnThrows(chain, response.single) THEN Err(TypeError)
    ELSE IF filterFn(chain, response.single) THEN Ok(Option(response.single))
    ELSE Ok(None)

\* Query.many
manyResult(chain, response) ==
    IF response.kind # "data" THEN Err(BackendError)
    ELSE IF \E i \in 1..Len(response.list) : filterFnThrows(chain, response.list[i])
    THEN Err(TypeError)
    ELSE Ok(List(Filter(chain, response.list)))

\* result.orThrow() inside wrapAsync in QueryBuilder.ts: an Err becomes a
\* rejected promise; Task.map in the later source keeps the Err
orThrowOrMap(result) ==
    IF build = "QueryBuilder" /\ result.tag = "Err" THEN Thrown(result.error) ELSE result

\* list.isEmpty ? Option.none() : Option(list.head)
headOption(list) == IF list.l = <<>> THEN None ELSE Option(Head(list.l))

\* Query.first
firstResult(chain, response) ==
    LET result == orThrowOrMap(manyResult(chain, response))
    IN  IF result.tag = "Ok" THEN Ok(headOption(result.value)) ELSE result

\* (await x()).orThrow() / runOrThrow, then option.orThrow(new Error(...))
\* for one and first
orThrow(result) ==
    CASE result.tag = "Err" -> Thrown(result.error)
      [] result.tag = "Ok" /\ result.value = None -> Thrown(NotFound)
      [] result.tag = "Ok" /\ result.value.t = "some" -> Returned(result.value.v)
      [] result.tag = "Ok" -> Returned(result.value)
      [] OTHER -> result

\* The terminal methods of a Query
queryResult(method, chain, response) ==
    CASE method = "one" -> oneResult(chain, response)
      [] method = "many" -> manyResult(chain, response)
      [] method = "first" -> firstResult(chain, response)
      [] method = "oneOrThrow" -> orThrow(oneResult(chain, response))
      [] method = "manyOrThrow" -> orThrow(manyResult(chain, response))
      [] method = "firstOrThrow" -> orThrow(firstResult(chain, response))

\* maybeItem.fold(() => Option.none(), (item) => Option(mapFn(item))) and
\* items.map(mapFn)
mapValue(chain, value) ==
    IF value.t = "list" THEN List([i \in 1..Len(value.l) |-> ApplyAll(chain.mapFn, value.l[i])])
    ELSE IF value = None THEN None
    ELSE Option(ApplyAll(chain.mapFn, value.v))

\* The non-throwing terminal methods of a MappedQuery, on the result of the
\* same method of sourceQuery
mappedResult(method, chain, response) ==
    LET result == orThrowOrMap(queryResult(method, chain, response))
    IN  IF result.tag = "Ok" THEN Ok(mapValue(chain, result.value)) ELSE result

\* What method hands to its caller on a chain executed against response
terminalResult(method, chain, response) ==
    IF chain.kind = "Query" THEN queryResult(method, chain, response)
    ELSE CASE method = "oneOrThrow" -> orThrow(mappedResult("one", chain, response))
           [] method = "manyOrThrow" -> orThrow(mappedResult("many", chain, response))
           [] method = "firstOrThrow" -> orThrow(mappedResult("first", chain, response))
           [] OTHER -> mappedResult(method, chain, response)

(***************************************************************************)
(* Bounds and input sets                                                   *)
(***************************************************************************)
\* Spec and SpecCount: chain values alive, terminal executions requested
MaxChains == 2
MaxExecs == 2
\* SpecCompile: chain methods applied to the entry point's chain, and
\* terminal executions of the resulting chain
MaxSteps == 2
MaxCompiles == 2
\* SpecPage: limit / offset calls made on the entry point's chain
MaxPageSteps == 2
\* SpecResult: filter / map calls made on the entry point's chain
MaxResultSteps == 3

a == S("a")
b == S("b")

PartitionField == "tenant_id"

\* where objects handed to query(client, table, where, is, wherein)
WhereLiteral == <<Pair("status", a)>>
WhereTwoLiterals == <<Pair("status", a), Pair("author", b)>>
WhereInlineIn == <<Pair("status", O(<<Pair("in", Arr(<<"a", "b">>))>>))>>
WhereInlineIs == <<Pair("author", O(<<Pair("is", Null)>>))>>
WhereTwoInlineIn ==
    <<Pair("status", O(<<Pair("in", Arr(<<"a">>))>>)),
      Pair("author", O(<<Pair("in", Arr(<<"b">>))>>))>>
WhereNotIs == <<Pair("not", O(<<Pair("is", O(<<Pair("author", Null)>>))>>))>>
WhereNotIn == <<Pair("not", O(<<Pair("in", O(<<Pair("status", Arr(<<"a">>))>>))>>))>>
WhereNamesPartition == <<Pair(PartitionField, b)>>
WhereDeleted == <<Pair(DeletedColumn, Null)>>

WhereinAuthor == O(<<Pair("author", Arr(<<"a">>))>>)

\* The entry points of Spec: where objects with inline in / is operators
StatefulEntries ==
    {query(WhereInlineIn, Undef, Undef),
     query(WhereTwoInlineIn, Undef, Undef),
     query(WhereInlineIs, Undef, Undef),
     query(WhereInlineIn, Undef, WhereinAuthor)}

\* The entry point of SpecCount
CountEntries == {query(WhereLiteral, Undef, Undef)}

\* The entry points of SpecCompile
CompileEntries ==
    {query(w, Undef, Undef) :
        w \in {WhereLiteral, WhereTwoLiterals, WhereInlineIn, WhereNotIs, WhereNotIn, WhereDeleted}}
    \cup {getItems(PartitionField, sd, a, w) :
            sd \in BOOLEAN, w \in {<<>>, WhereLiteral, WhereNamesPartition}}

\* where objects handed to or(where, is)
OrWheres == {<<Pair("status", b)>>}
CompileOrWheres ==
    {<<Pair("status", b)>>, <<Pair("status", a)>>, <<Pair("status", a), Pair("author", a)>>}

Ids == {a}
Limits == {N(2)}
Offsets == {N(1)}
Predicates == {"isA"}
MapFns == {"name"}
\* outcome before the first result, and in the runs that watch the backend
\* calls only
NoOutcome == [method |-> "none"]
NotObserved == [method |-> "not observed"]

\* Backend answers: rows, or an error
DataResponse(list, single) == [kind |-> "data", list |-> list, single |-> single]
ErrorResponse == [kind |-> "error"]
ThrowsResponse == [kind |-> "throws"]
Responses == {DataResponse(<<a, b>>, a), ErrorResponse}

(***************************************************************************)
(* Actions                                                                 *)
(***************************************************************************)
Now == [heap |-> heap, chains |-> chains]

Becomes(st) ==
    /\ heap' = st.heap
    /\ chains' = st.chains
    /\ UNCHANGED <<build, log, executions, outcome>>

IsQuery(c) == c \in 1..Len(chains) /\ chains[c].kind = "Query"

or(c, where, is) == IsQuery(c) /\ Becomes(orCall(Now, c, where, is))

whereId(c, id) == IsQuery(c) /\ Becomes(whereIdCall(Now, c, id))

orWhereId(c, id) == IsQuery(c) /\ Becomes(orWhereIdCall(Now, c, id))

filter(c, predicate) == c \in 1..Len(chains) /\ Becomes(filterCall(Now, c, predicate))

map(c, fn) == c \in 1..Len(chains) /\ Becomes(mapCall(Now, c, fn))

limit(c, count) == IsQuery(c) /\ Becomes(limitCall(Now, c, count))

offset(c, count) == IsQuery(c) /\ Becomes(offsetCall(Now, c, count))

includeDeleted(c) == IsQuery(c) /\ Becomes(includeDeletedCall(Now, c))

excludeDeleted(c) == IsQuery(c) /\ Becomes(excludeDeletedCall(Now, c))

onlyDeleted(c) == IsQuery(c) /\ Becomes(onlyDeletedCall(Now, c))

Observed(result) == IF outcome = NotObserved THEN NotObserved ELSE result

Terminal(c, method, response) ==
    LET runs == Runs(method, response)
    IN  /\ c \in 1..Len(chains)
        /\ log' = Append(log, [chain |-> c,
                               calls |-> [i \in 1..Len(runs) |-> RunCalls(heap, chains[c], runs, i)]])
        /\ heap' = BuildEffects(heap, chains[c], Len(runs))
        /\ executions' = executions + Len(runs)
        /\ outcome' = Observed([method |-> method, response |-> response,
                                 result |-> terminalResult(method, chains[c], response)])
        /\ UNCHANGED <<build, chains>>

one(c, response) == Terminal(c, "one", response)

many(c, response) == Terminal(c, "many", response)

first(c, response) == Terminal(c, "first", response)

oneOrThrow(c, response) == Terminal(c, "oneOrThrow", response)

manyOrThrow(c, response) == Terminal(c, "manyOrThrow", response)

firstOrThrow(c, response) == Terminal(c, "firstOrThrow", response)

(***************************************************************************)
(* Spec: the chain machine.  Any chain value may be derived from or        *)
(* executed, in any order.                                                 *)
(***************************************************************************)
InitWith(entries) ==
    /\ build \in Builds
    /\ \E st \in entries : heap = st.heap /\ chains = st.chains
    /\ log = <<>>
    /\ executions = 0
    /\ outcome = NotObserved

Init == InitWith(StatefulEntries)

Next ==
    \E c \in 1..MaxChains :
        \/ Len(chains) < MaxChains /\ \E where \in OrWheres : or(c, where, Undef)
        \/ Len(chains) < MaxChains /\ \E id \in Ids : whereId(c, id)
        \/ Len(chains) < MaxChains /\ \E id \in Ids : orWhereId(c, id)
        \/ Len(chains) < MaxChains /\ \E predicate \in Predicates : filter(c, predicate)
        \/ Len(chains) < MaxChains /\ \E fn \in MapFns : map(c, fn)
        \/ Len(chains) < MaxChains /\ \E count \in Limits : limit(c, count)
        \/ Len(chains) < MaxChains /\ \E count \in Offsets : offset(c, count)
        \/ Len(chains) < MaxChains /\ includeDeleted(c)
        \/ Len(chains) < MaxChains /\ excludeDeleted(c)
        \/ Len(chains) < MaxChains /\ onlyDeleted(c)
        \/ Len(log) < MaxExecs /\ \E response \in Responses : one(c, response)
        \/ Len(log) < MaxExecs /\ \E response \in Responses : many(c, response)
        \/ Len(log) < MaxExecs /\ \E response \in Responses : first(c, response)
        \/ Len(log) < MaxExecs /\ \E response \in Responses : oneOrThrow(c, response)
        \/ Len(log) < MaxExecs /\ \E response \in Responses : manyOrThrow(c, response)
        \/ Len(log) < MaxExecs /\ \E response \in Responses : firstOrThrow(c, response)

Spec == Init /\ [][Next]_vars

\* SpecCount: the chain machine started from a query with one literal
\* equality.
InitCount == InitWith(CountEntries)

SpecCount == InitCount /\ [][Next]_vars

(***************************************************************************)
(* SpecCompile: the compiler as a function of the chain it is given.  Init *)
(* draws an entry point and a list of chain methods, each applied to the   *)
(* chain the one before returned; the actions execute the last chain.      *)
(***************************************************************************)
CompileSteps ==
    {[m |-> "or", where |-> w] : w \in CompileOrWheres}
    \cup {[m |-> "whereId", id |-> id] : id \in Ids}
    \cup {[m |-> "limit", count |-> n] : n \in Limits}
    \cup {[m |-> mm] : mm \in {"includeDeleted", "excludeDeleted", "onlyDeleted"}}

StepCall(st, step) ==
    LET c == Len(st.chains)
    IN  CASE step.m = "or" -> orCall(st, c, step.where, Undef)
          [] step.m = "whereId" -> whereIdCall(st, c, step.id)
          [] step.m = "limit" -> limitCall(st, c, step.count)
          [] step.m = "includeDeleted" -> includeDeletedCall(st, c)
          [] step.m = "excludeDeleted" -> excludeDeletedCall(st, c)
          [] step.m = "onlyDeleted" -> onlyDeletedCall(st, c)

RECURSIVE StepCalls(_, _)
StepCalls(st, steps) ==
    IF steps = <<>> THEN st ELSE StepCalls(StepCall(st, Head(steps)), Tail(steps))

Scenarios == UNION {[1..n -> CompileSteps] : n \in 0..MaxSteps}

InitCompile ==
    /\ build \in Builds
    /\ \E entry \in CompileEntries, steps \in Scenarios :
        LET st == StepCalls(entry, steps)
        IN  heap = st.heap /\ chains = st.chains
    /\ log = <<>>
    /\ executions = 0
    /\ outcome = NotObserved

NextCompile ==
    \/ Len(log) < MaxCompiles /\ \E response \in Responses : one(Len(chains), response)
    \/ Len(log) < MaxCompiles /\ \E response \in Responses : many(Len(chains), response)

SpecCompile == InitCompile /\ [][NextCompile]_vars

(***************************************************************************)
(* SpecResult: results.  Init draws filter / map calls made on a query;    *)
(* one terminal method is then called on the last chain, the backend       *)
(* answers, and the caller's result is observed.                           *)
(***************************************************************************)
rowC == S("c")

ResultSteps ==
    {[m |-> "filter", predicate |-> pr] : pr \in {"isA", "notB", "isC"}}
    \cup {[m |-> "map", fn |-> fn] : fn \in {"swap", "name"}}

ResultStepCall(st, step) ==
    IF step.m = "filter" THEN filterCall(st, Len(st.chains), step.predicate)
    ELSE mapCall(st, Len(st.chains), step.fn)

RECURSIVE ResultStepCalls(_, _)
ResultStepCalls(st, steps) ==
    IF steps = <<>> THEN st ELSE ResultStepCalls(ResultStepCall(st, Head(steps)), Tail(steps))

\* What the list fetch, and what single(), may deliver with no error
ResultLists == {<<>>, <<b>>, <<a, b>>, <<b, rowC, a>>, <<a, a>>}
ResultSingles == {Null, a, b, rowC}

ResultResponses ==
    {ErrorResponse, ThrowsResponse}
    \cup {DataResponse(list, single) : list \in ResultLists, single \in ResultSingles}

InitResult ==
    /\ build \in Builds
    /\ \E steps \in UNION {[1..n -> ResultSteps] : n \in 0..MaxResultSteps} :
        LET st == ResultStepCalls(query(WhereLiteral, Undef, Undef), steps)
        IN  heap = st.heap /\ chains = st.chains
    /\ log = <<>>
    /\ executions = 0
    /\ outcome = NoOutcome

NextResult ==
    \/ outcome = NoOutcome /\ \E response \in ResultResponses : one(Len(chains), response)
    \/ outcome = NoOutcome /\ \E response \in ResultResponses : many(Len(chains), response)
    \/ outcome = NoOutcome /\ \E response \in ResultResponses : first(Len(chains), response)
    \/ outcome = NoOutcome /\ \E response \in ResultResponses : oneOrThrow(Len(chains), response)
    \/ outcome = NoOutcome /\ \E response \in ResultResponses : manyOrThrow(Len(chains), response)
    \/ outcome = NoOutcome /\ \E response \in ResultResponses : firstOrThrow(Len(chains), response)

SpecResult == InitResult /\ [][NextResult]_vars

(***************************************************************************)
(* SpecPage: pagination.  Init draws limit(n) / offset(k) calls, n and k   *)
(* from 0 up, made in any order on a query; the actions execute the last   *)
(* chain.                                                                  *)
(***************************************************************************)
PageCounts == {N(0), N(1), N(2)}

PageSteps ==
    {[m |-> "limit", count |-> n] : n \in PageCounts}
    \cup {[m |-> "offset", count |-> k] : k \in PageCounts}

PageStepCall(st, step) ==
    IF step.m = "limit" THEN limitCall(st, Len(st.chains), step.count)
    ELSE offsetCall(st, Len(st.chains), step.count)

RECURSIVE PageStepCalls(_, _)
PageStepCalls(st, steps) ==
    IF steps = <<>> THEN st ELSE PageStepCalls(PageStepCall(st, Head(steps)), Tail(steps))

InitPage ==
    /\ build \in Builds
    /\ \E steps \in UNION {[1..n -> PageSteps] : n \in 0..MaxPageSteps} :
        LET st == PageStepCalls(query(WhereLiteral, Undef, Undef), steps)
        IN  heap = st.heap /\ chains = st.chains
    /\ log = <<>>
    /\ executions = 0
    /\ outcome = NotObserved

SpecPage == InitPage /\ [][NextCompile]_vars

(***************************************************************************)
(* SpecNeq: compilation of neq entries.  Init draws where objects with a   *)
(* neq operator, at the top level or inline on a column, with a null or a  *)
(* literal operand.                                                        *)
(***************************************************************************)
WhereNeqNull == <<Pair("neq", O(<<Pair("author", Null)>>))>>
WhereInlineNeqNull == <<Pair("author", O(<<Pair("neq", Null)>>))>>
WhereNeqLiteral == <<Pair("status", a), Pair("neq", O(<<Pair("author", b)>>))>>

NeqEntries ==
    {query(w, Undef, Undef) : w \in {WhereNeqNull, WhereInlineNeqNull, WhereNeqLiteral}}

InitNeq ==
    /\ build \in Builds
    /\ \E entry \in NeqEntries, steps \in Scenarios :
        LET st == StepCalls(entry, steps)
        IN  heap = st.heap /\ chains = st.chains
    /\ log = <<>>
    /\ executions = 0
    /\ outcome = NotObserved

SpecNeq == InitNeq /\ [][NextCompile]_vars

(***************************************************************************)
(* SpecOr: common-condition extraction.  Init draws or(where, is) calls    *)
(* made on a query of two literal pairs, the branches sharing all, some or *)
(* none of them.                                                           *)
(***************************************************************************)
WhereStatusAuthorNull == <<Pair("status", a), Pair("author", Null)>>

OrEntries ==
    {query(w, Undef, Undef) :
        w \in {WhereTwoLiterals, WhereStatusAuthorNull,
               <<Pair("age", O(<<Pair("gte", S("18"))>>)), Pair("status", a)>>}}

OrBranchWheres ==
    {WhereTwoLiterals, WhereStatusAuthorNull,
     <<Pair("author", Null), Pair("status", a)>>,
     <<Pair("status", a), Pair("author", a)>>,
     <<Pair("status", a)>>,
     <<Pair("status", b), Pair("author", Null)>>,
     <<Pair("status", a), Pair("age", O(<<Pair("gte", S("18"))>>))>>}

OrBranches ==
    {[where |-> w, is |-> Undef] : w \in OrBranchWheres}
    \cup {[where |-> <<Pair("status", a)>>, is |-> O(<<Pair("author", Null)>>)]}

RECURSIVE OrCalls(_, _)
OrCalls(st, branches) ==
    IF branches = <<>> THEN st
    ELSE OrCalls(orCall(st, Len(st.chains), Head(branches).where, Head(branches).is),
                 Tail(branches))

InitOr ==
    /\ build \in Builds
    /\ \E entry \in OrEntries, branches \in UNION {[1..n -> OrBranches] : n \in 1..MaxSteps} :
        LET st == OrCalls(entry, branches)
        IN  heap = st.heap /\ chains = st.chains
    /\ log = <<>>
    /\ executions = 0
    /\ outcome = NotObserved

SpecOr == InitOr /\ [][NextCompile]_vars

(***************************************************************************)
(* SpecOps: operator conditions.  Init draws the parameter object of an    *)
(* Entity's getItems (where, is, wherein, comparison buckets, not, order)  *)
(* and or / limit calls made on its query.                                 *)
(***************************************************************************)
\* Entity(client, name, { softDelete }).getItems(params): createGetItemsQuery
\* hands where, is, wherein, order, the comparison buckets and not to
\* createQuery, whose QueryBuilder.ts version has no not parameter
makeGetItems(softDelete, params, order) ==
    LET condition == IF build = "QueryBuilder" THEN [params EXCEPT !.not = Undef] ELSE params
    IN  [heap |-> <<condition>>,
         chains |-> <<createQuery(1, condition, order, getSoftDeleteMode(softDelete), "true",
                                  Undef)>>]

\* { where: { age: { gte: "5" } }, gte: { age: "1" }, like: { status: "a%" } }
ParamsCollision ==
    [Condition(<<Pair("age", O(<<Pair("gte", S("5"))>>)),
                 Pair("like", O(<<Pair("status", S("b%"))>>))>>, Undef, Undef)
        EXCEPT !.gte = O(<<Pair("age", S("1"))>>), !.like = O(<<Pair("status", S("a%"))>>)]

\* { where: { status: { in: ["a"] }, author: { is: null } },
\*   wherein: { status: ["b"] }, is: { author: true } }
ParamsDedicated ==
    Condition(<<Pair("status", O(<<Pair("in", Arr(<<"a">>))>>)),
                Pair("author", O(<<Pair("is", Null)>>))>>,
              O(<<Pair("author", S("true"))>>),
              O(<<Pair("status", Arr(<<"b">>))>>))

\* { where: { status: "a" }, wherein: { author: [] } }
ParamsEmptyIn == Condition(<<Pair("status", a)>>, Undef, O(<<Pair("author", Arr(<<>>))>>))

\* { where: { age: { gte: "0" }, status: "a", meta: { x: "a" }, tags: ["a"], author: null } }
ParamsBundles ==
    Condition(<<Pair("age", O(<<Pair("gte", S("0"))>>)), Pair("status", a),
                Pair("meta", O(<<Pair("x", a)>>)), Pair("tags", Arr(<<"a">>)),
                Pair("author", Null)>>, Undef, Undef)

\* every kind of condition at once, two columns in some of the mappings
ParamsAll ==
    [Condition(<<Pair("status", a), Pair("age", O(<<Pair("lt", S("9"))>>))>>,
               O(<<Pair("author", Null)>>),
               O(<<Pair("status", Arr(<<"a", "b">>)), Pair("author", Arr(<<"a">>))>>))
        EXCEPT !.gt = O(<<Pair("age", S("1")), Pair("rank", S("2"))>>),
               !.gte = O(<<Pair("age", S("1"))>>),
               !.lte = O(<<Pair("age", S("9"))>>),
               !.neq = O(<<Pair("status", b)>>),
               !.like = O(<<Pair("status", S("a%"))>>),
               !.ilike = O(<<Pair("author", S("%b"))>>),
               !.not = O(<<Pair("is", O(<<Pair("author", Null)>>)),
                           Pair("in", O(<<Pair("status", Arr(<<"b">>))>>))>>)]

OpsParams == {ParamsCollision, ParamsDedicated, ParamsEmptyIn, ParamsBundles, ParamsAll,
              Condition(<<Pair("status", a)>>, Undef, Undef)}

OpsOrders == {Undef, S("age")}

\* or(where, is) calls: a literal branch with an is condition, a branch with
\* an inline operator bundle, a branch with an empty in list
OpsSteps ==
    {[m |-> "or", where |-> <<Pair("status", a)>>, is |-> O(<<Pair("author", Null)>>)],
     [m |-> "or", where |-> <<Pair("age", O(<<Pair("gte", S("18"))>>))>>, is |-> Undef],
     [m |-> "or", where |-> <<Pair("status", b)>>, is |-> Undef],
     [m |-> "limit", count |-> N(2)]}

OpsStepCall(st, step) ==
    IF step.m = "or" THEN orCall(st, Len(st.chains), step.where, step.is)
    ELSE limitCall(st, Len(st.chains), step.count)

RECURSIVE OpsStepCalls(_, _)
OpsStepCalls(st, steps) ==
    IF steps = <<>> THEN st ELSE OpsStepCalls(OpsStepCall(st, Head(steps)), Tail(steps))

InitOps ==
    /\ build \in Builds
    /\ \E softDelete \in BOOLEAN, params \in OpsParams, order \in OpsOrders,
          steps \in UNION {[1..n -> OpsSteps] : n \in 0..MaxSteps} :
        LET st == OpsStepCalls(makeGetItems(softDelete, params, order), steps)
        IN  heap = st.heap /\ chains = st.chains
    /\ log = <<>>
    /\ executions = 0
    /\ outcome = NotObserved

SpecOps == InitOps /\ [][NextCompile]_vars

(***************************************************************************)
(* rpc(client, functionName, args, options): stored procedure calls        *)
(***************************************************************************)
\* client.rpc(functionName, args, options) and client.schema(name) as the
\* client sees them
RpcCall(functionName, args, options) ==
    [op |-> "rpc", fn |-> functionName, args |-> args, options |-> options]

SchemaCall(name) == [op |-> "schema", name |-> name]

\* (client as any).rpc(functionName, args ?? {}, { count: options?.count })
executeRpc(execution) ==
    <<RpcCall(execution.functionName,
              IF execution.args \in {Null, Undef} THEN O(<<>>) ELSE execution.args,
              O(<<Pair("count", Get(Entries(execution.options), "count"))>>))>>

\* A many() that wraps whatever data is in a one-element list
rpcManyWrapsArray(response) ==
    IF response.kind = "throws" THEN Err(BackendError)
    ELSE IF Truthy(response.error) THEN Err(response.error)
    ELSE IF response.data \in {Null, Undef} THEN Ok(List(<<>>))
    ELSE Ok(List(<<response.data>>))

\* rpc(...).one(): the promise of executeRpc rejected, or resolved to
\* { data, error }
rpcOne(response) ==
    IF response.kind = "throws" THEN Err(BackendError)
    ELSE IF Truthy(response.error) THEN Err(response.error)
    ELSE IF response.data \in {Null, Undef} THEN Ok(None)
    ELSE IF response.data.t = "arr"
         THEN IF Len(response.data.l) = 0 THEN Ok(None) ELSE Ok(Option(response.data.l[1]))
    ELSE Ok(Option(response.data))

\* rpc(...).many()
rpcMany(response) ==
    IF response.kind = "throws" THEN Err(BackendError)
    ELSE IF Truthy(response.error) THEN Err(response.error)
    ELSE IF response.data \in {Null, Undef} THEN Ok(List(<<>>))
    ELSE IF response.data.t = "arr" THEN Ok(List(response.data.l))
    ELSE Ok(List(<<response.data>>))

NoResult == "RPC call returned no result"

\* rpc(...).oneOrThrow()
rpcOneOrThrow(response) ==
    LET result == rpcOne(response)
    IN  IF result.tag = "Err" THEN Thrown(result.error)
        ELSE IF result.value = None THEN Thrown(NoResult)
        ELSE Returned(result.value.v)

\* rpc(...).manyOrThrow()
rpcManyOrThrow(response) ==
    LET result == rpcMany(response)
    IN  IF result.tag = "Err" THEN Thrown(result.error) ELSE Returned(result.value)

rpcResult(method, response) ==
    CASE method = "one" -> rpcOne(response)
      [] method = "many" -> rpcMany(response)
      [] method = "oneOrThrow" -> rpcOneOrThrow(response)
      [] method = "manyOrThrow" -> rpcManyOrThrow(response)

\* The RpcExecution object rpc returns: its closure
rpc(functionName, args, options) ==
    [kind |-> "RpcExecution", functionName |-> functionName, args |-> args, options |-> options]

(***************************************************************************)
(* SpecRpc: an RpcExecution and the calls of its four methods              *)
(***************************************************************************)
MaxRpcCalls == 2

RpcArgs == {Undef, O(<<Pair("input", a)>>)}
RpcOptions ==
    {Undef, O(<<>>), O(<<Pair("schema", S("analytics"))>>), O(<<Pair("count", S("exact"))>>),
     O(<<Pair("schema", S("analytics")), Pair("count", S("exact"))>>)}

\* What the backend resolves to: data of every shape, with and without an error
RpcData ==
    {Null, Undef, Arr(<<>>), Arr(<<a>>), Arr(<<b, a>>), Arr(<<Null, a>>),
     a, S("0"), O(<<Pair("id", a)>>)}
RpcErrors == {Null, O(<<Pair("message", S("Database error"))>>)}
RpcResponses ==
    {[kind |-> "data", data |-> d, error |-> e] : d \in RpcData, e \in RpcErrors}
    \cup {ThrowsResponse}

RpcMethod(method, response) ==
    /\ Len(log) < MaxRpcCalls
    /\ log' = Append(log, [chain |-> 1, calls |-> <<executeRpc(chains[1])>>])
    /\ executions' = executions + 1
    /\ outcome' = [method |-> method, response |-> response,
                   result |-> rpcResult(method, response)]
    /\ UNCHANGED <<build, heap, chains>>

InitRpc ==
    /\ build \in Builds
    /\ heap = <<>>
    /\ \E args \in RpcArgs, options \in RpcOptions :
        chains = <<rpc("get_items", args, options)>>
    /\ log = <<>>
    /\ executions = 0
    /\ outcome = NoOutcome

NextRpc ==
    \/ \E response \in RpcResponses : RpcMethod("one", response)
    \/ \E response \in RpcResponses : RpcMethod("many", response)
    \/ \E response \in RpcResponses : RpcMethod("oneOrThrow", response)
    \/ \E response \in RpcResponses : RpcMethod("manyOrThrow", response)

SpecRpc == InitRpc /\ [][NextRpc]_vars

(***************************************************************************)
(* The backend's filter semantics: which rows a compiled query accepts     *)
(***************************************************************************)
Range(l) == {l[i] : i \in 1..Len(l)}

\* The order of the scalars the model draws operands from
Rank(s) == IF s = "0" THEN 0 ELSE IF s = "a" THEN 1 ELSE 2

\* row[col]; a column the table does not have makes the backend reject the
\* filter, and no row is returned
Field(row, col) == IF col \in DOMAIN row THEN row[col] ELSE Undef

\* column <op> operand on a row's field f, as SQL evaluates it: a NULL
\* field satisfies only IS NULL
OpHolds(op, f, v) ==
    CASE op = "eq" -> f.t = "s" /\ f = v
      [] op = "is" -> (v = Null /\ f = Null) \/ (v.t = "s" /\ f = v)
      [] op = "in" -> f.t = "s" /\ v.t = "arr" /\ f.s \in Range(v.l)
      [] op = "neq" -> f.t = "s" /\ v.t = "s" /\ f # v
      [] op = "gt" -> f.t = "s" /\ v.t = "s" /\ Rank(f.s) > Rank(v.s)
      [] op = "gte" -> f.t = "s" /\ v.t = "s" /\ Rank(f.s) >= Rank(v.s)
      [] op = "lt" -> f.t = "s" /\ v.t = "s" /\ Rank(f.s) < Rank(v.s)
      [] op = "lte" -> f.t = "s" /\ v.t = "s" /\ Rank(f.s) =< Rank(v.s)
      [] op \in {"like", "ilike"} -> f.t = "s" /\ f = v
      [] op = "not.is" -> (v = Null /\ f.t = "s") \/ (v.t = "s" /\ f.t = "s" /\ f # v)
      [] op = "not.in" -> f.t = "s" /\ v.t = "arr" /\ f.s \notin Range(v.l)
      [] OTHER -> FALSE

\* The operand a clause's text denotes: "v" a quoted scalar, null, a bare
\* word, or a parenthesised list of quoted scalars
Unquote(text) ==
    IF text = "null" THEN Null
    ELSE IF \E s \in {"0", "a", "b", "t", "true", "false"} : text = "\"" \o s \o "\""
    THEN S(CHOOSE s \in {"0", "a", "b", "t", "true", "false"} : text = "\"" \o s \o "\"")
    ELSE S(text)

ClauseOperand(clause) ==
    IF clause.op \in {"in", "not.in"}
    THEN Arr([i \in 1..Len(clause.val) |-> Unquote(clause.val[i]).s])
    ELSE Unquote(clause.val[1])

ClauseAccepts(clause, row) ==
    OpHolds(clause.op, Field(row, clause.col), ClauseOperand(clause))

CallAccepts(call, row) ==
    CASE call.op \in {"select", "order", "limit", "range", "single", "list"} -> TRUE
      [] call.op = "match" ->
            \A i \in 1..Len(call.arg.o) :
                OpHolds("eq", Field(row, call.arg.o[i].k), call.arg.o[i].v)
      [] call.op = "not" -> OpHolds("not." \o call.sub, Field(row, call.col), call.arg)
      [] call.op = "or" -> \E i \in 1..Len(call.arg.c) : ClauseAccepts(call.arg.c[i], row)
      [] OTHER -> OpHolds(call.op, Field(row, call.col), call.arg)

\* The rows the query built by calls returns among the table's rows
Accepts(calls, row) == \A i \in 1..Len(calls) : CallAccepts(calls[i], row)

Rows ==
    [id : {a, b}, status : {a, b}, author : {a, b, Null}, tenant_id : {a, b},
     deleted : {Null, S("t")}]

(***************************************************************************)
(* What a Condition asks for (the data model): every entry of one branch   *)
(* must hold                                                               *)
(***************************************************************************)
BucketHolds(op, bucket, row) ==
    \A i \in 1..Len(Entries(bucket)) :
        OpHolds(op, Field(row, Entries(bucket)[i].k), Entries(bucket)[i].v)

\* One entry of the where object: a literal, null, an operator bundle or a
\* where-level shorthand
WhereEntryHolds(key, value, row) ==
    IF key \in ComparisonOpSet THEN BucketHolds(key, value, row)
    ELSE IF key = "not"
    THEN /\ BucketHolds("not.is", Get(Entries(value), "is"), row)
         /\ BucketHolds("not.in", Get(Entries(value), "in"), row)
    ELSE IF value = Null THEN Field(row, key) = Null
    ELSE IF value.t = "obj"
    THEN \A i \in 1..Len(value.o) : OpHolds(value.o[i].k, Field(row, key), value.o[i].v)
    ELSE OpHolds("eq", Field(row, key), value)

BranchHolds(condition, row) ==
    /\ \A i \in 1..Len(condition.where) :
        WhereEntryHolds(condition.where[i].k, condition.where[i].v, row)
    /\ BucketHolds("is", condition.is, row)
    /\ BucketHolds("in", condition.wherein, row)
    /\ \A op \in ComparisonOpSet : BucketHolds(op, condition[op], row)
    /\ BucketHolds("not.is", Get(Entries(condition.not), "is"), row)
    /\ BucketHolds("not.in", Get(Entries(condition.not), "in"), row)

\* The soft-delete policy as a predicate on rows
SoftDeleteHolds(softDeleteMode, row) ==
    CASE softDeleteMode = "exclude" -> row.deleted = Null
      [] softDeleteMode = "only" -> row.deleted # Null
      [] OTHER -> TRUE

(***************************************************************************)
(* Claims                                                                  *)
(***************************************************************************)
\* The builder calls of log entry e (its one backend execution), without
\* the execution call that ends them
BuilderCalls(e) == SubSeq(e.calls[1], 1, Len(e.calls[1]) - 1)

IsMultiBranch(chain) == Len(chain.conditions) > 1

\* C1: a row is accepted by the query compiled by the multi-branch path if
\* and only if it passes the soft-delete filter and satisfies every
\* condition of at least one branch.
C1_MultiBranchAcceptsBranchRows ==
    \A i \in 1..Len(log) :
        LET chain == chains[log[i].chain]
        IN  IsMultiBranch(chain) =>
                \A row \in Rows :
                    Accepts(BuilderCalls(log[i]), row)
                    <=> /\ SoftDeleteHolds(chain.softDeleteMode, row)
                        /\ \E j \in 1..Len(chain.created) : BranchHolds(chain.created[j], row)

\* The operators written inline in the where object of a condition, as
\* <<column, operator, operand>>
InlineOps(condition, op) ==
    {<<condition.where[i].k, condition.where[i].v.o[j].v>> :
        <<i, j>> \in {<<i, j>> \in (1..Len(condition.where)) \X (1..2) :
            /\ condition.where[i].v.t = "obj"
            /\ j =< Len(condition.where[i].v.o)
            /\ condition.where[i].v.o[j].k = op}}

\* C2: on the single-branch path every inline in / is operator of the where
\* object is issued to the backend as an in(...) / is(...) call on every
\* execution of a terminal method, the first included.
C2_InlineInIsIssuedOnEveryExecution ==
    \A i \in 1..Len(log) :
        LET chain == chains[log[i].chain]
            calls == Range(BuilderCalls(log[i]))
        IN  ~IsMultiBranch(chain) =>
                \A op \in {"in", "is"} :
                    \A inline \in InlineOps(chain.created[1], op) :
                        Call(op, inline[1], inline[2]) \in calls

\* C3: executing a terminal method twice in succession on the same chain
\* value issues the same sequence of backend builder calls both times.
C3_CompileIsIdempotent ==
    \A i \in 1..Len(log) :
        (i < Len(log) /\ log[i].chain = log[i + 1].chain)
            => BuilderCalls(log[i]) = BuilderCalls(log[i + 1])

\* The configuration a chain value holds now, its condition objects read
\* through the references it keeps
ConfigNow(c) == [chains[c] EXCEPT !.created = Deref(heap, chains[c].conditions)]

\* C4: no chain method and no terminal method changes the configuration of
\* a chain value that already exists: each holds what it held at creation.
C4_ExistingConfigNeverChanges ==
    \A c \in 1..Len(chains) : ConfigNow(c) = chains[c]

\* C5: a chain derived from an ancestor issues, when executed, the backend
\* calls it issues when executed alone, whatever was built or executed on
\* the other chains before.
C5_DerivedChainsDoNotInterfere ==
    \A i \in 1..Len(log) :
        LET chain == chains[log[i].chain]
        IN  (\A j \in 1..(i - 1) : log[j].chain # log[i].chain)
                => BuilderCalls(log[i]) = buildSupabaseQuery(chain.created, chain)

\* C6: the number of backend executions issued equals the number of
\* terminal executions requested: chain methods issue none, every
\* terminal execution issues exactly one, whether or not the chain was
\* executed before and whatever the backend answered.
C6_OneExecutionPerTerminal ==
    /\ executions = Len(log)
    /\ \A i \in 1..Len(log) : Len(log[i].calls) = 1

\* A chain value returned by a chain method has been executed twice in a row
C6_Witness ==
    /\ Len(chains) = MaxChains
    /\ Len(log) = MaxExecs
    /\ log[1].chain = log[2].chain
    /\ chains[log[1].chain].parent # 0

\* The entries of the not: { is: {...} } / not: { in: {...} } object a
\* where object carries
WhereNot(condition, sub) == Entries(Get(Entries(Get(condition.where, "not")), sub))

\* C7: a query whose where object contains not: { is: { col: v } } or
\* not: { in: { col: [...] } } compiles on every execution to
\* not(col, 'is', v) respectively not(col, 'in', [...]) on the named
\* column, and to no other filter for that entry.
C7_WhereNotCompilesToNegatedFilter ==
    \A i \in 1..Len(log) :
        LET chain == chains[log[i].chain]
            calls == BuilderCalls(log[i])
        IN  (~IsMultiBranch(chain) /\ chain.partition = Undef) =>
                /\ \A sub \in {"is", "in"} :
                    \A j \in 1..Len(WhereNot(chain.created[1], sub)) :
                        NotCall(WhereNot(chain.created[1], sub)[j].k, sub,
                                WhereNot(chain.created[1], sub)[j].v) \in Range(calls)
                /\ \A k \in 1..Len(calls) :
                    /\ calls[k].col # "not"
                    /\ calls[k].op = "match" => ~Has(calls[k].arg.o, "not")

\* C8: every query compiled from a chain obtained from a PartitionedEntity
\* accepts only rows whose partition field equals the partition key.
C8_TenantIsolation ==
    \A i \in 1..Len(log) :
        LET chain == chains[log[i].chain]
        IN  chain.partition # Undef =>
                \A row \in Rows :
                    Accepts(BuilderCalls(log[i]), row)
                        => row[chain.partition.field] = chain.partition.key

\* The chain's conditions name the deleted column themselves
NamesDeleted(chain) ==
    \E j \in 1..Len(chain.created) :
        DeletedColumn \in Keys(chain.created[j].where)
                          \cup Keys(Entries(chain.created[j].is))
                          \cup Keys(Entries(chain.created[j].wherein))

\* The call each mode prescribes
PrescribedFilter(softDeleteMode) ==
    CASE softDeleteMode = "exclude" -> <<Call("is", DeletedColumn, Null)>>
      [] softDeleteMode = "only" -> <<NotCall(DeletedColumn, "is", Null)>>
      [] OTHER -> <<>>

OnDeleted(call) == call.col = DeletedColumn

InsideOr(call) ==
    /\ call.op = "or"
    /\ \E j \in 1..Len(call.arg.c) : call.arg.c[j].col = DeletedColumn

\* C9: in single-branch and in multi-branch compilation the soft-delete
\* filter is the one the mode prescribes: none for include or no mode,
\* one is('deleted', null) for exclude, one not('deleted', 'is', null) for
\* only, placed after select and match on the single-branch path and right
\* after select, outside the or(...) expression, on the multi-branch path.
\* The count is over the calls on the deleted column of chains whose own
\* conditions do not name that column.
C9_SoftDeleteFilterAsModePrescribes ==
    \A i \in 1..Len(log) :
        LET chain == chains[log[i].chain]
            calls == BuilderCalls(log[i])
            pos == IF IsMultiBranch(chain) THEN 2 ELSE 3
            prescribed == PrescribedFilter(chain.softDeleteMode)
        IN  /\ prescribed # <<>> => (pos =< Len(calls) /\ calls[pos] = prescribed[1])
            /\ ~NamesDeleted(chain) =>
                /\ SelectSeq(calls, OnDeleted) = prescribed
                /\ SelectSeq(calls, InsideOr) = <<>>

\* A multi-branch chain in mode only has compiled to an or(...) expression
C9_Witness ==
    \E i \in 1..Len(log) :
        /\ IsMultiBranch(chains[log[i].chain])
        /\ chains[log[i].chain].softDeleteMode = "only"
        /\ \E k \in 1..Len(log[i].calls[1]) : log[i].calls[1][k].op = "or"

\* The builder calls chain c compiles to now
Compile(c) == buildSupabaseQuery(Deref(heap, chains[c].conditions), chains[c])

ModeSwitches == {"includeDeleted", "excludeDeleted", "onlyDeleted"}

\* No mode set compiles as include
InForce(softDeleteMode) == IF softDeleteMode = "unset" THEN "include" ELSE softDeleteMode

\* C10: the compiled soft-delete filter is the one of the last mode switch
\* made on the way to the chain, or of the entry point's mode when there
\* was none; softDeleteAppliedByDefault is false after any switch; and a
\* switch to the mode already in force compiles to the call sequence of
\* the chain it was made on.
C10_LastModeSwitchDecides ==
    \A c \in 1..Len(chains) :
        LET chain == chains[c]
            mode == IF chain.lastSwitch = "none" THEN chains[1].softDeleteMode
                    ELSE chain.lastSwitch
        IN  /\ ~NamesDeleted(chain) =>
                SelectSeq(Compile(c), OnDeleted) = PrescribedFilter(mode)
            /\ chain.lastSwitch # "none" => chain.softDeleteAppliedByDefault = "false"
            /\ (chain.via \in ModeSwitches
                    /\ InForce(chains[chain.parent].softDeleteMode) = chain.softDeleteMode)
                => Compile(c) = Compile(chain.parent)

\* A chain made by a second mode switch that differs from the first, on an
\* entity whose default applied, has been executed
C10_Witness ==
    /\ log # <<>>
    /\ chains[1].softDeleteAppliedByDefault = "true"
    /\ \E c \in 1..Len(chains) :
        /\ chains[c].via \in ModeSwitches
        /\ chains[chains[c].parent].via \in ModeSwitches
        /\ chains[chains[c].parent].softDeleteMode # chains[c].softDeleteMode

\* The pagination calls among calls
IsPagination(call) == call.op \in {"limit", "range"}

\* The calls C11 prescribes for a chain's limit and offset
PrescribedPagination(n, k) ==
    IF n # Undef /\ k # Undef
    THEN <<Call("range", "", <<k, N(k.n + n.n - 1)>>)>>
    ELSE IF n # Undef THEN <<Call("limit", "", <<n>>)>>
    ELSE IF k # Undef THEN <<Call("range", "", <<k, MAX_SAFE_INTEGER>>)>>
    ELSE <<>>

\* C11: for every limit n >= 0 and offset k >= 0 set on a chain, in either
\* order, the pagination calls issued are: one range(k, k + n - 1) and no
\* limit when both are set, one limit(n) when only limit is set, one
\* range(k, MAX_SAFE_INTEGER) when only offset is set, none when neither is.
C11_PaginationCalls ==
    \A i \in 1..Len(log) :
        LET chain == chains[log[i].chain]
        IN  SelectSeq(BuilderCalls(log[i]), IsPagination)
                = PrescribedPagination(chain.limit, chain.offset)

\* The chain the observed terminal method was called on
Observed1 == outcome # NoOutcome /\ outcome # NotObserved

ObservedChain == chains[log[Len(log)].chain]

NonThrowing == {"one", "many", "first"}

\* C12: for Query and MappedQuery alike, when the backend execution returns
\* an error or the backend call throws, one(), many() and first() complete
\* with an Err result: they never throw or reject.
C12_BackendErrorsSurfaceAsErr ==
    (Observed1 /\ outcome.method \in NonThrowing /\ outcome.response.kind # "data")
        => outcome.result.tag = "Err"

\* The non-throwing counterpart of an OrThrow method
Counterpart(method) ==
    CASE method = "oneOrThrow" -> "one"
      [] method = "manyOrThrow" -> "many"
      [] method = "firstOrThrow" -> "first"

\* C13: oneOrThrow and firstOrThrow throw exactly when one() / first() yields
\* Err or Ok(None) and otherwise return the row; manyOrThrow throws exactly
\* when many() yields Err and otherwise returns the list.
C13_OrThrowFollowsCounterpart ==
    (Observed1 /\ outcome.method \notin NonThrowing) =>
        LET counterpart ==
                terminalResult(Counterpart(outcome.method), ObservedChain, outcome.response)
        IN  IF counterpart.tag = "Err" \/ (counterpart.tag = "Ok" /\ counterpart.value = None)
            THEN outcome.result.tag = "throw"
            ELSE /\ counterpart.tag = "Ok"
                 /\ outcome.result =
                        Returned(IF counterpart.value.t = "some" THEN counterpart.value.v
                                 ELSE counterpart.value)

\* The chain the observed terminal method was called on, as an index, and
\* the backend execution it ended its builder calls with
ExecutedChain == log[Len(log)].chain

ExecutionCall == log[Len(log)].calls[1][Len(log[Len(log)].calls[1])].op

Last(l) == l[Len(l)]

\* What the maps made on the way to chain n turn row r into, and whether r
\* passes the filters made on the way, each filter seeing the row as the
\* maps made before it turned it
RECURSIVE MappedRow(_, _)
MappedRow(n, r) ==
    IF n = 0 THEN r
    ELSE IF chains[n].via = "map"
    THEN Apply(Last(chains[n].mapFn), MappedRow(chains[n].parent, r))
    ELSE MappedRow(chains[n].parent, r)

RECURSIVE PassesFilters(_, _)
PassesFilters(n, r) ==
    IF n = 0 THEN TRUE
    ELSE /\ chains[n].via = "filter"
                => Holds(Last(chains[n].filterFn).p, MappedRow(chains[n].parent, r))
         /\ PassesFilters(chains[n].parent, r)

\* The rows of the backend's list that pass the filters of the executed chain
KeptRows ==
    LET Keep(r) == PassesFilters(ExecutedChain, r)
    IN  SelectSeq(outcome.response.list, Keep)

\* C14: first() never invokes single(): it runs the list fetch and returns
\* Ok(Some(first row of the list after filterFn)) when that list is
\* non-empty and Ok(None) when it is empty, for a backend list of any
\* length; one() on the same chain always uses single().
C14_FirstTakesHeadOfList ==
    Observed1 =>
        /\ outcome.method = "first" =>
            /\ ExecutionCall = "list"
            /\ outcome.response.kind = "data" =>
                outcome.result = Ok(IF KeptRows = <<>> THEN None
                                    ELSE Some(MappedRow(ExecutedChain, KeptRows[1])))
        /\ outcome.method = "one" => ExecutionCall = "single"

\* first() has returned the head of a backend list of three rows of which
\* the filter drops the first
C14_Witness ==
    /\ Observed1
    /\ outcome.method = "first"
    /\ outcome.response.kind = "data"
    /\ Len(outcome.response.list) > 2
    /\ outcome.result = Ok(Some(a))
    /\ ObservedChain.filterFn # <<>>

C17_MappedFilterSeesMappedValue ==
    (Observed1 /\ ObservedChain.kind = "MappedQuery" /\ outcome.method = "many") =>
        /\ outcome.response.kind = "data" =>
            outcome.result =
                Ok(List([i \in 1..Len(KeptRows) |-> MappedRow(ExecutedChain, KeptRows[i])]))
        /\ BuilderCalls(log[Len(log)]) = buildSupabaseQuery(Deref(heap, chains[1].conditions), chains[1])

\* many() on q.map(swap).filter(p).map(name) has returned mapped rows
C17_Witness ==
    /\ Observed1
    /\ outcome.method = "many"
    /\ outcome.response.kind = "data"
    /\ ObservedChain.via = "map"
    /\ chains[ObservedChain.parent].via = "filter"
    /\ chains[chains[ObservedChain.parent].parent].via = "map"
    /\ ObservedChain.mapFn = <<"swap", "name">>
    /\ outcome.result.value.l # <<>>
    /\ Len(outcome.result.value.l) < Len(outcome.response.list)

\* The neq entries of a condition as applyCondition merges them
MergedNeq(condition) ==
    Spread(Entries(condition.neq), Entries(Extract(condition).neq))

\* C15: in single-branch compilation a neq entry with a null operand on
\* column c compiles to the call a not.is entry { c: null } compiles to,
\* not(c, 'is', null), and never to neq(c, null).
C15_NeqNullCompilesToNotIs ==
    \A i \in 1..Len(log) :
        LET chain == chains[log[i].chain]
            calls == BuilderCalls(log[i])
            neq == MergedNeq(chain.created[1])
        IN  ~IsMultiBranch(chain) =>
                \A j \in 1..Len(neq) :
                    neq[j].v = Null =>
                        /\ NotCall(neq[j].k, "is", Null) \in Range(calls)
                        /\ Call("neq", neq[j].k, Null) \notin Range(calls)

\* C18: rpc(...).one() and rpc(...).many() normalize the backend result by
\* its shape alone: an error present gives Err in both modes whatever data
\* is; data null or undefined gives None / the empty List; an array gives
\* its first element (None if the array is empty) / the array unchanged as
\* a List; any other value gives Some(value) / a one-element List.
C18_RpcNormalizesByShape ==
    (Observed1 /\ outcome.response.kind = "data" /\ outcome.method \in {"one", "many"}) =>
        LET data == outcome.response.data
            single == outcome.method = "one"
        IN  IF outcome.response.error # Null THEN outcome.result.tag = "Err"
            ELSE IF data \in {Null, Undef}
                 THEN outcome.result = Ok(IF single THEN None ELSE List(<<>>))
            ELSE IF data.t = "arr"
                 THEN outcome.result =
                        Ok(IF ~single THEN List(data.l)
                           ELSE IF data.l = <<>> \/ data.l[1] = Null THEN None
                           ELSE Some(data.l[1]))
            ELSE outcome.result = Ok(IF single THEN Some(data) ELSE List(<<data>>))

\* many() has returned a two-element array unchanged
C18_Witness ==
    /\ Observed1
    /\ ObservedChain.kind = "RpcExecution"
    /\ outcome.method = "many"
    /\ outcome.response.kind = "data"
    /\ outcome.response.error = Null
    /\ outcome.response.data = Arr(<<b, a>>)
    /\ outcome.result = Ok(List(<<b, a>>))

\* C19: with options.schema set the function is invoked through the
\* client's schema(name) accessor, and directly on the client when
\* options.schema is absent; options.count is passed through in both cases.
C19_RpcUsesSchemaOption ==
    \A i \in 1..Len(log) :
        LET execution == chains[log[i].chain]
            schema == Get(Entries(execution.options), "schema")
            call == RpcCall(execution.functionName,
                            IF execution.args = Undef THEN O(<<>>) ELSE execution.args,
                            O(<<Pair("count", Get(Entries(execution.options), "count"))>>))
        IN  execution.kind = "RpcExecution" =>
                log[i].calls[1] = IF schema = Undef THEN <<call>>
                                  ELSE <<SchemaCall(schema), call>>

IsLiteral(v) == v.t \in {"s", "null"}

\* The (column, value) literal pairs every branch's where object holds
CommonPairs(conditions) ==
    {p \in Range(conditions[1].where) :
        /\ IsLiteral(p.v)
        /\ \A j \in 1..Len(conditions) :
            Has(conditions[j].where, p.k) /\ Get(conditions[j].where, p.k) = p.v}

\* The shared filter a common pair is applied as, and the clause it would
\* be inside an or(...) filter
SharedFilter(p) == IF p.v = Null THEN Call("is", p.k, Null) ELSE Call("eq", p.k, p.v)

PairClause(p) ==
    IF p.v = Null THEN Clause(p.k, "is", <<"null">>)
    ELSE Clause(p.k, "eq", <<"\"" \o p.v.s \o "\"">>)

\* A branch that has no condition at all once the common pairs are removed
NothingLeft(condition, common) ==
    /\ \A i \in 1..Len(condition.where) : condition.where[i] \in common
    /\ \A field \in {"is", "wherein", "gt", "gte", "lt", "lte", "neq", "like", "ilike", "not"} :
        Entries(condition[field]) = <<>>

\* C20: in multi-branch compilation every (column, value) literal pair that
\* every branch's where object holds with the same value is applied exactly
\* once as a shared filter, eq(column, value) or is(column, null) for null,
\* and is in no OR fragment; and when removing the common pairs leaves
\* every branch with no condition at all, no or(...) call is issued.
C20_CommonPairsAreSharedFilters ==
    \A i \in 1..Len(log) :
        LET chain == chains[log[i].chain]
            calls == BuilderCalls(log[i])
            common == CommonPairs(chain.created)
        IN  IsMultiBranch(chain) =>
                /\ \A p \in common :
                    /\ Cardinality({j \in 1..Len(calls) : calls[j] = SharedFilter(p)}) = 1
                    /\ \A j \in 1..Len(calls) :
                        calls[j].op = "or" => PairClause(p) \notin Range(calls[j].arg.c)
                /\ (\A j \in 1..Len(chain.created) : NothingLeft(chain.created[j], common))
                        => \A j \in 1..Len(calls) : calls[j].op # "or"

\* Two branches sharing a null author and differing in status have been
\* compiled to is(author, null) and an or(...) of the two status clauses
C20_Witness ==
    \E i \in 1..Len(log) :
        LET calls == BuilderCalls(log[i])
        IN  /\ IsMultiBranch(chains[log[i].chain])
            /\ CommonPairs(chains[log[i].chain].created) = {Pair("author", Null)}
            /\ Call("is", "author", Null) \in Range(calls)
            /\ \E j \in 1..Len(calls) :
                /\ calls[j].op = "or"
                /\ calls[j].arg.c = <<PairClause(Pair("status", a)), PairClause(Pair("status", b))>>

\* C29: one() applies filterFn only to an actual row: when single() returns
\* no row (data null, no error) the result is Ok(None) for every filterFn
\* on the chain.
C29_NoRowIsOkNone ==
    (/\ Observed1
     /\ outcome.method = "one"
     /\ outcome.response.kind = "data"
     /\ outcome.response.single = Null)
        => outcome.result = Ok(None)

Buckets == {"gt", "gte", "lt", "lte", "neq", "like", "ilike"}

\* A branch carries an is / in / comparison / not sub-condition
HasSubCondition(condition) ==
    \/ Entries(condition.is) # <<>>
    \/ \E i \in 1..Len(Entries(condition.wherein)) :
        NonEmptyArray(Entries(condition.wherein)[i].v)
    \/ \E op \in Buckets : Entries(condition[op]) # <<>>
    \/ \E sub \in {"is", "in"} : Entries(Get(Entries(condition.not), sub)) # <<>>

OrClauses(calls) ==
    UNION {Range(calls[j].arg.c) : j \in {k \in 1..Len(calls) : calls[k].op = "or"}}

\* C21: in multi-branch compilation the or(...) call is omitted only when
\* every branch's residual equality map is empty and no branch carries an
\* is / in / comparison / not sub-condition; a branch's is condition is in
\* the compiled query also when all equality fields were common.
C21_OrOmittedOnlyWhenNothingRemains ==
    \A i \in 1..Len(log) :
        LET chain == chains[log[i].chain]
            calls == BuilderCalls(log[i])
            common == CommonPairs(chain.created)
        IN  IsMultiBranch(chain) =>
                /\ (\A j \in 1..Len(calls) : calls[j].op # "or") =>
                        \A j \in 1..Len(chain.created) :
                            /\ Range(chain.created[j].where) \subseteq common
                            /\ ~HasSubCondition(chain.created[j])
                /\ \A j \in 1..Len(chain.created) :
                    \A n \in 1..Len(Entries(chain.created[j].is)) :
                        LET p == Entries(chain.created[j].is)[n]
                        IN  Clause(p.k, "is", <<Str(p.v)>>) \in OrClauses(calls)

\* The operator conditions of a branch as (column, operator) pairs: the
\* entries of its explicit buckets, the operators of the inline bundles in
\* its where object, and the entries of where-level shorthands
ExplicitOperators(condition) ==
    UNION {{<<Entries(condition[op])[n].k, op>> : n \in 1..Len(Entries(condition[op]))} :
            op \in Buckets}

InlineOperators(condition) ==
    UNION {{<<condition.where[n].k, op>> :
                n \in {m \in 1..Len(condition.where) :
                        /\ condition.where[m].k \notin Buckets
                        /\ Has(Entries(condition.where[m].v), op)}} :
            op \in Buckets}

ShorthandOperators(condition) ==
    UNION {{<<Entries(Get(condition.where, op))[n].k, op>> :
                n \in 1..Len(Entries(Get(condition.where, op)))} :
            op \in Buckets}

\* C22: in multi-branch compilation every operator condition of a branch,
\* from an explicit bucket, an inline bundle or a where-level shorthand,
\* reaches the or(...) filter as a clause on its column with its operator,
\* and no bundle object is serialized as an equality clause.
C22_OperatorsReachOrFragment ==
    \A i \in 1..Len(log) :
        LET chain == chains[log[i].chain]
            clauses == OrClauses(BuilderCalls(log[i]))
        IN  IsMultiBranch(chain) =>
                \A j \in 1..Len(chain.created) :
                    /\ \A co \in ExplicitOperators(chain.created[j])
                                 \cup InlineOperators(chain.created[j])
                                 \cup ShorthandOperators(chain.created[j]) :
                        \E clause \in clauses : clause.col = co[1] /\ clause.op = co[2]
                    /\ \A clause \in clauses :
                        ~(clause.op = "eq" /\ clause.val = <<Quote(O(<<>>))>>)

\* The operands the where object gives operator op on column k: through an
\* inline bundle { k: { op: v } } and through a shorthand { op: { k: v } }
InlineOperands(condition, k, op) ==
    {Get(Entries(Get(condition.where, k)), op),
     IF IsPlainObject(Get(condition.where, op))
     THEN Get(Entries(Get(condition.where, op)), k) ELSE Undef} \ {Undef}

\* C23: in single-branch compilation, when a column has an operand in an
\* explicit comparison bucket and a different operand for the same operator
\* from an inline bundle or a where-level shorthand, the call issued for
\* the column and operator carries the explicit bucket's operand.
C23_ExplicitOperandWins ==
    \A i \in 1..Len(log) :
        LET chain == chains[log[i].chain]
            calls == BuilderCalls(log[i])
            condition == chain.created[1]
        IN  ~IsMultiBranch(chain) =>
                \A op \in Buckets :
                    \A n \in 1..Len(Entries(condition[op])) :
                        LET p == Entries(condition[op])[n]
                        IN  (InlineOperands(condition, p.k, op) \ {p.v} # {}) =>
                                \A j \in 1..Len(calls) :
                                    (calls[j].op = op /\ calls[j].col = p.k)
                                        => calls[j].arg = p.v

\* A where value that is an operator bundle: a plain object carrying one
\* of the recognized operator keys
IsOperatorBundle(v) ==
    IsPlainObject(v) /\ \E op \in Buckets \cup {"in", "is"} : Has(v.o, op)

MatchCalls(calls) == SelectSeq(calls, LAMBDA call : call.op = "match")

\* C24: in single-branch compilation a column of the where object is in the
\* argument of the match call if and only if its value is not an operator
\* bundle; a column whose bundle carries a recognized operator key,
\* whatever the operand, is applied through operator filters only.
C24_MatchHoldsLiteralsOnly ==
    \A i \in 1..Len(log) :
        LET chain == chains[log[i].chain]
            matches == MatchCalls(BuilderCalls(log[i]))
            where == chain.created[1].where
        IN  ~IsMultiBranch(chain) =>
                /\ Len(matches) = 1
                /\ \A n \in 1..Len(where) :
                    where[n].k \notin Buckets =>
                        (Has(matches[1].arg.o, where[n].k) <=> ~IsOperatorBundle(where[n].v))

\* C25: when a column is both in the dedicated wherein (is) parameter and an
\* inline in (is) operator of the where object, the in(...) (is(...)) call
\* for the column carries the dedicated parameter's value.
C25_DedicatedParameterWins ==
    \A i \in 1..Len(log) :
        LET chain == chains[log[i].chain]
            calls == BuilderCalls(log[i])
            condition == chain.created[1]
            Dedicated(op) == Entries(IF op = "in" THEN condition.wherein ELSE condition.is)
        IN  ~IsMultiBranch(chain) =>
                \A op \in {"in", "is"} :
                    \A n \in 1..Len(Dedicated(op)) :
                        Has(Entries(Get(condition.where, Dedicated(op)[n].k)), op) =>
                            \A j \in 1..Len(calls) :
                                (calls[j].op = op /\ calls[j].col = Dedicated(op)[n].k)
                                    => calls[j].arg = Dedicated(op)[n].v

\* C26: an IN condition whose value list is empty produces no IN filter:
\* no in(column, []) call in single-branch compilation and no col.in.()
\* clause in multi-branch compilation.
C26_EmptyInListIsDropped ==
    \A i \in 1..Len(log) :
        LET calls == BuilderCalls(log[i])
        IN  /\ \A j \in 1..Len(calls) : ~(calls[j].op = "in" /\ calls[j].arg = Arr(<<>>))
            /\ \A clause \in OrClauses(calls) : ~(clause.op = "in" /\ clause.val = <<>>)

\* The place of a builder call in the prescribed order; the soft-delete
\* filter is the call on the deleted column
CallRank(call) ==
    CASE call.op = "select" -> 1
      [] call.op = "match" -> 2
      [] call.col = DeletedColumn -> 3
      [] call.op = "in" -> 4
      [] call.op = "is" -> 5
      [] call.op = "gt" -> 6
      [] call.op = "gte" -> 7
      [] call.op = "lt" -> 8
      [] call.op = "lte" -> 9
      [] call.op = "neq" -> 10
      [] call.op = "like" -> 11
      [] call.op = "ilike" -> 12
      [] call.op = "not" /\ call.sub = "is" -> 13
      [] call.op = "not" /\ call.sub = "in" -> 14
      [] call.op = "order" -> 15
      [] call.op \in {"limit", "range"} -> 16
      [] OTHER -> 0

\* The mapping a group of calls is made from, as the parameter object gave it
GroupMapping(condition, rank) ==
    CASE rank = 4 -> Entries(condition.wherein)
      [] rank = 5 -> Entries(condition.is)
      [] rank = 6 -> Entries(condition.gt)
      [] rank = 7 -> Entries(condition.gte)
      [] rank = 8 -> Entries(condition.lt)
      [] rank = 9 -> Entries(condition.lte)
      [] rank = 10 -> Entries(condition.neq)
      [] rank = 11 -> Entries(condition.like)
      [] rank = 12 -> Entries(condition.ilike)
      [] rank = 13 -> Entries(Get(Entries(condition.not), "is"))
      [] rank = 14 -> Entries(Get(Entries(condition.not), "in"))
      [] OTHER -> <<>>

LiteralPairs(condition) == {p \in Range(condition.where) : IsLiteral(p.v)}

\* The literal equality pairs all branches hold
PairsOfAllBranches(conditions) ==
    {p \in UNION {LiteralPairs(conditions[j]) : j \in 1..Len(conditions)} :
        \A j \in 1..Len(conditions) : p \in LiteralPairs(conditions[j])}

Permutations(n) == {f \in [1..n -> 1..n] : \A x, y \in 1..n : f[x] = f[y] => x = y}

\* The shared filters among the builder calls: eq calls, and is calls on
\* other columns than the soft-delete column
SharedFilters(calls) ==
    {calls[j] : j \in {k \in 1..Len(calls) :
        calls[k].op = "eq" \/ (calls[k].op = "is" /\ calls[k].col # DeletedColumn)}}

\* C28: the common pairs extracted from the first branch's candidates are
\* the intersection of the literal equality pairs of all branches, for
\* every list of branches, so that permuting the branches does not change
\* the set of shared filters applied.  Stated of the latest compilation.
C28_CommonPairsAreTheIntersection ==
    \A i \in {Len(log)} \ {0} :
        LET chain == chains[log[i].chain]
            conditions == chain.created
            all == PairsOfAllBranches(conditions)
        IN  IsMultiBranch(chain) =>
                /\ SharedFilters(BuilderCalls(log[i])) = {SharedFilter(p) : p \in all}
                /\ \A f \in Permutations(Len(conditions)) :
                    LET permuted == [j \in 1..Len(conditions) |-> conditions[f[j]]]
                    IN  /\ Range(commonConditions(permuted)) = all
                        /\ Range(CommonCalls(commonConditions(permuted)))
                            = {SharedFilter(p) : p \in all}

\* Three branches have been compiled of which the first holds a pair the
\* third does not, and all share another pair
C28_Witness ==
    \E i \in 1..Len(log) :
        LET conditions == chains[log[i].chain].created
        IN  /\ Len(conditions) = 3
            /\ PairsOfAllBranches(conditions) = {Pair("status", a)}
            /\ Pair("author", Null) \in LiteralPairs(conditions[1])
            /\ Pair("author", Null) \in LiteralPairs(conditions[2])
            /\ Pair("author", Null) \notin LiteralPairs(conditions[3])
            /\ Call("eq", "status", a) \in Range(BuilderCalls(log[i]))

\* The builder calls the newest chain of st compiles to
CompileLast(st) ==
    buildSupabaseQuery(Deref(st.heap, st.chains[Len(st.chains)].conditions),
                       st.chains[Len(st.chains)])

====
